---- MODULE Spec2Model ----
(***************************************************************************)
(* State-machine model of src/app.py: the Streamlit chat script that asks  *)
(* an LLM for a SQL SELECT (tool call generate_sql), runs it on Databricks *)
(* through execute_select_query, and feeds the result back to the LLM.     *)
(*                                                                         *)
(* A SQL string is a sequence of one-character strings, so that the        *)
(* regular expression of execute_select_query is matched character by      *)
(* character.                                                              *)
(***************************************************************************)
EXTENDS Integers, Sequences, FiniteSets, TLC

(***************************************************************************)
(* Bounds of the model.                                                    *)
(***************************************************************************)
\* user prompts submitted in one conversation
MaxTurns == 2
\* tool invocations carried by one model reply
MaxToolCalls == 2
\* rows a query returns, beyond the preview limit of line 141
MaxExtraRows == 1
\* characters in front of the keyword, and behind it, in a generated candidate
MaxLead == 2
MaxTail == 2

(***************************************************************************)
(* Characters.                                                             *)
(***************************************************************************)
\* the characters Python's \s matches that a TLA+ string can spell
WhiteSpace == {" ", "\t", "\n", "\r", "\f"}

IsSpace(c) == c \in WhiteSpace

LowerLetters ==
    <<"a", "b", "c", "d", "e", "f", "g", "h", "i", "j", "k", "l", "m",
      "n", "o", "p", "q", "r", "s", "t", "u", "v", "w", "x", "y", "z">>

UpperLetters ==
    <<"A", "B", "C", "D", "E", "F", "G", "H", "I", "J", "K", "L", "M",
      "N", "O", "P", "Q", "R", "S", "T", "U", "V", "W", "X", "Y", "Z">>

\* re.IGNORECASE compares characters up to letter case
CaseFold(c) ==
    IF \E i \in 1..26 : UpperLetters[i] = c
    THEN LowerLetters[CHOOSE i \in 1..26 : UpperLetters[i] = c]
    ELSE c

(***************************************************************************)
(* The pattern r"^\s*SELECT\s" of line 26 and re.match.                    *)
(***************************************************************************)
WsStar == [kind |-> "ws_star", ch |-> ""]
Ws     == [kind |-> "ws", ch |-> ""]
Lit(c) == [kind |-> "lit", ch |-> c]

SelectPattern ==
    <<WsStar, Lit("S"), Lit("E"), Lit("L"), Lit("E"), Lit("C"), Lit("T"), Ws>>

\* the pattern with its trailing \s forgotten
SelectPatternNoSpace ==
    <<WsStar, Lit("S"), Lit("E"), Lit("L"), Lit("E"), Lit("C"), Lit("T")>>

\* the pattern with its keyword forgotten
SelectPatternNoKeyword == <<WsStar>>

\* re.match: a backtracking match of pat[i..] against s[j..], anchored at j
RECURSIVE MatchFrom(_, _, _, _)
MatchFrom(pat, i, s, j) ==
    IF i > Len(pat) THEN TRUE
    ELSE LET e == pat[i] IN
         CASE e.kind = "ws_star" ->
                  \/ j <= Len(s) /\ IsSpace(s[j]) /\ MatchFrom(pat, i, s, j + 1)
                  \/ MatchFrom(pat, i + 1, s, j)
           [] e.kind = "ws" ->
                  j <= Len(s) /\ IsSpace(s[j]) /\ MatchFrom(pat, i + 1, s, j + 1)
           [] OTHER ->
                  /\ j <= Len(s)
                  /\ CaseFold(s[j]) = CaseFold(e.ch)
                  /\ MatchFrom(pat, i + 1, s, j + 1)

ReMatch(pat, s) == MatchFrom(pat, 1, s, 1)

ValidatorNoSpace(query) == ReMatch(SelectPatternNoSpace, query)

ValidatorNoKeyword(query) == ReMatch(SelectPatternNoKeyword, query)

\* the pattern searched for anywhere in the text (re.search, no anchor)
ValidatorUnanchored(query) ==
    \E j \in 1..(Len(query) + 1) : MatchFrom(SelectPattern, 1, query, j)

\* line 26: re.match(r"^\s*SELECT\s", query, re.IGNORECASE)
Validator(query) == ReMatch(SelectPattern, query)

OnlySelectError == "Only SELECT queries are allowed."

(***************************************************************************)
(* SQL candidates the model may propose in a conversation.                 *)
(***************************************************************************)
SqlSelectAll ==
    <<" ", " ", "s", "e", "l", "e", "c", "t", " ", "*", " ", "f", "r", "o", "m",
      " ", "e", "m", "p", "l", "o", "y", "e", "e", "s">>

SqlDelete ==
    <<"D", "E", "L", "E", "T", "E", " ", "F", "R", "O", "M", " ",
      "e", "m", "p", "l", "o", "y", "e", "e", "s">>

SqlMultiStatement ==
    <<"S", "E", "L", "E", "C", "T", " ", "1", ";", " ", "D", "R", "O", "P", " ",
      "T", "A", "B", "L", "E", " ", "e", "m", "p", "l", "o", "y", "e", "e", "s">>

SqlCommentThenSelect ==
    <<"-", "-", " ", "c", "\n", "S", "E", "L", "E", "C", "T", " ", "1">>

SqlSelectish == <<"S", "E", "L", "E", "C", "T", "i", "s", "h">>

SqlBareSelect == <<"S", "E", "L", "E", "C", "T">>

SqlCandidates ==
    {SqlSelectAll, SqlDelete, SqlMultiStatement, SqlCommentThenSelect,
     SqlSelectish, SqlBareSelect}

(***************************************************************************)
(* Generated candidates: lead, keyword-like middle, tail.                  *)
(***************************************************************************)
StringsUpTo(alphabet, n) == UNION {[1..k -> alphabet] : k \in 0..n}

LeadAlphabet == {" ", "\n", "x"}
TailAlphabet == {"\t", "x", ";"}

KeywordUpper == <<"S", "E", "L", "E", "C", "T">>
KeywordLower == <<"s", "e", "l", "e", "c", "t">>

\* SELECT in every mix of letter case, and near misses of it
KeywordForms ==
    {[i \in 1..6 |-> IF i \in U THEN KeywordUpper[i] ELSE KeywordLower[i]] :
        U \in SUBSET (1..6)}
    \cup {<<>>, <<"S", "E", "L", "E", "C">>, <<"S", "E", "L", "E", "K", "T">>,
          <<"S", " ", "E", "L", "E", "C", "T">>, <<"D", "R", "O", "P">>}

GeneratedCandidates ==
    {lead \o kw \o tail : lead \in StringsUpTo(LeadAlphabet, MaxLead),
                          kw \in KeywordForms,
                          tail \in StringsUpTo(TailAlphabet, MaxTail)}

(***************************************************************************)
(* Values exchanged with the collaborators.                                *)
(***************************************************************************)
SystemPrompt == "You are an Employee Training Tracker Bot."

Prompts == {"How many employees completed course 3?", "Delete all employees"}

\* texts the model may answer with
ReplyTexts == {"4 employees completed course 3.", "I can only read the database."}

\* exceptions sql.connect and pd.read_sql may raise
ConnectErrors == {"connection refused"}
QueryErrors == {"TABLE_OR_VIEW_NOT_FOUND"}

EmptyResultText ==
    "The query executed successfully, but there are no results to display."
ExecutionErrorText == "There was an error executing the query."

\* line 141: df.head(20)
HeadLimit == 20

RowCounts == {0, 1} \cup (HeadLimit..(HeadLimit + MaxExtraRows))

\* a DataFrame of n rows, each row named by its position in the result
Frame(n) == [status |-> "frame", rows |-> [i \in 1..n |-> i]]
NoneFrame == [status |-> "None", rows |-> <<>>]
UnsetFrame == [status |-> "unset", rows |-> <<>>]

\* df.head(k) cut one row short
HeadRowsShort(rows, k) == SubSeq(rows, 1, IF Len(rows) < k THEN Len(rows) ELSE k - 1)

\* df.head(k)
HeadRows(rows, k) == SubSeq(rows, 1, IF Len(rows) < k THEN Len(rows) ELSE k)

\* tool_calls[i].function.arguments: a JSON text, by what json.loads makes of it
ArgsNotJson == [parses |-> FALSE, keys |-> {}, sql_query |-> <<>>]
ArgsNoField == [parses |-> TRUE, keys |-> {"query"}, sql_query |-> <<>>]
ArgsWith(q) == [parses |-> TRUE, keys |-> {"sql_query"}, sql_query |-> q]

Arguments == {ArgsNotJson, ArgsNoField} \cup {ArgsWith(q) : q \in SqlCandidates}

\* lines 125-126: json.loads(arguments)["sql_query"] raises on either defect
ArgsRaise(a) == ~a.parses \/ "sql_query" \notin a.keys

ToolCall(i, a) == [id |-> i, name |-> "generate_sql", arguments |-> a]

\* the message of response.choices[0]: text, or tool invocations; the first
\* invocation carries any arguments, the further ones a well-formed query
ToolReplies ==
    {[role |-> "assistant", content |-> "",
      tool_calls |-> [i \in 1..k |->
                         ToolCall(i, IF i = 1 THEN a ELSE ArgsWith(SqlSelectAll))]] :
        k \in 1..MaxToolCalls, a \in Arguments}

TextReplies ==
    {[role |-> "assistant", content |-> t, tool_calls |-> <<>>] : t \in ReplyTexts}

NoResponse == [role |-> "assistant", content |-> "", tool_calls |-> <<>>]

Turn(role, content) == [role |-> role, content |-> content]

\* lines 138-160: the tool-result turn
ToolResult(id, text, rows) ==
    [role |-> "tool", tool_call_id |-> id, content |-> [text |-> text, rows |-> rows]]

NoToolResult == ToolResult(0, "", <<>>)

BlankUi == [code |-> <<>>, code_shown |-> FALSE, dataframe |-> <<>>, error |-> ""]

BlankTurn ==
    [model_calls |-> 0, validations |-> 0, connects |-> 0, statements |-> 0,
     appended |-> 0, path |-> "none", raised |-> "none", executor |-> "none"]

(***************************************************************************)
(* Pure steps of the script.                                               *)
(***************************************************************************)
\* the system turn seeded on every run, the test of line 70 left out
SeededAlways(has, msgs) == <<Turn("system", SystemPrompt)>>

\* lines 70-97: the system turn is seeded when the session has no messages
Seeded(has, msgs) == IF has THEN msgs ELSE <<Turn("system", SystemPrompt)>>

\* line 122-123: `if tool_calls:` is false for None and for an empty list
HasToolCalls(resp) == Len(resp.tool_calls) > 0

\* the SQL shown with a leading whitespace character removed
RenderedSqlTrimmed(q) == IF q # <<>> /\ IsSpace(Head(q)) THEN Tail(q) ELSE q

\* line 130: st.code(sql_query, language="sql")
RenderedSql(q) == q

\* the execution step entered again after a failure
AfterExecutionErrorRetry == "connect"

\* lines 155-163: after the except clause the script goes on to the follow-up
\* call; no loop leads back to execute_select_query
AfterExecutionError == "followup"

\* the reply text lost: assistant_replied keeps its initial "" of line 121
DirectReplyLost(resp) == ""

\* line 170: assistant_replied = response.choices[0].message.content
DirectReply(resp) == resp.content

\* the two fixed texts exchanged
FunctionResponseSwapped(id, frame) ==
    IF frame.status = "frame" /\ Len(frame.rows) > 0
    THEN ToolResult(id, "", HeadRows(frame.rows, HeadLimit))
    ELSE IF frame.status = "frame"
         THEN ToolResult(id, ExecutionErrorText, <<>>)
         ELSE ToolResult(id, EmptyResultText, <<>>)

\* an empty frame taken for a failure (`if df is not None and not df.empty`
\* followed by a bare else)
FunctionResponseMerged(id, frame) ==
    IF frame.status = "frame" /\ Len(frame.rows) > 0
    THEN ToolResult(id, "", HeadRows(frame.rows, HeadLimit))
    ELSE ToolResult(id, ExecutionErrorText, <<>>)

\* lines 135-154: the tool-result turn for what execute_select_query returned;
\* the markdown table is the sequence of the rows it renders
FunctionResponse(id, frame) ==
    IF frame.status = "frame" /\ Len(frame.rows) > 0
    THEN ToolResult(id, "", HeadRows(frame.rows, HeadLimit))
    ELSE IF frame.status = "frame"
         THEN ToolResult(id, EmptyResultText, <<>>)
         ELSE ToolResult(id, ExecutionErrorText, <<>>)

\* lines 155-160: f"Error: {e}"
ErrorResponse(id, e) == ToolResult(id, "Error: " \o e, <<>>)

\* the tool-result turn left out of the context
FollowupContextNoResult(msgs, resp, frm) == msgs \o <<resp>>

\* line 165: st.session_state.messages + [response.choices[0].message,
\* function_response_message], a new list
FollowupContext(msgs, resp, frm) == msgs \o <<resp, frm>>

\* the two turns appended to the session list itself (messages += [...])
SessionAfterFollowupExtended(msgs, resp, frm) == msgs \o <<resp, frm>>

\* line 165 leaves st.session_state.messages as it was
SessionAfterFollowup(msgs, resp, frm) == msgs

\* connection.close() only on the path that returns the frame
OpenAfterExitNoFinally(open, failed) == IF failed THEN open ELSE open - 1

\* lines 41-42: finally: connection.close(), on the return and the except path
OpenAfterExit(open, failed) == open - 1

(***************************************************************************)
(* State.                                                                  *)
(***************************************************************************)
VARIABLES
    has_messages,       \* "messages" in st.session_state
    messages,           \* st.session_state.messages
    pc,                 \* where the script run stands; "idle": no run, the
                        \* page awaits input
    turns,              \* prompts submitted so far
    response,           \* response.choices[0].message of line 113
    sql_query,          \* line 126
    open_connections,   \* warehouse connections opened and not closed
    df,                 \* what pd.read_sql returned, line 36
    query_failed,       \* pd.read_sql raised, lines 38-40
    function_response_message,  \* lines 138-160
    followup_context,   \* the messages argument of the call of line 163
    assistant_replied,  \* lines 121, 167, 170
    ui,                 \* what the run rendered: st.code, st.dataframe, st.error
    warehouse_log,      \* the statements the warehouse was given
    turn                \* what the current run did so far

vars ==
    <<has_messages, messages, pc, turns, response, sql_query, open_connections,
      df, query_failed, function_response_message, followup_context,
      assistant_replied, ui, warehouse_log, turn>>

locals ==
    <<response, sql_query, df, query_failed, function_response_message,
      followup_context, assistant_replied>>

session == <<has_messages, messages, turns>>

\* a fresh browser session: the script has not run yet
Init ==
    /\ has_messages = FALSE
    /\ messages = <<>>
    /\ pc = "idle"
    /\ turns = 0
    /\ response = NoResponse
    /\ sql_query = <<>>
    /\ open_connections = 0
    /\ df = UnsetFrame
    /\ query_failed = FALSE
    /\ function_response_message = NoToolResult
    /\ followup_context = <<>>
    /\ assistant_replied = ""
    /\ ui = BlankUi
    /\ warehouse_log = {}
    /\ turn = BlankTurn

(***************************************************************************)
(* The script run, one action per step between two external calls.  An     *)
(* exception nothing in the script catches ends the run: Streamlit shows   *)
(* it and keeps st.session_state, and the page awaits input again.         *)
(***************************************************************************)

\* lines 66-106 with no prompt submitted: the page is (re)drawn
Rerun ==
    /\ pc = "idle"
    /\ has_messages' = TRUE
    /\ messages' = Seeded(has_messages, messages)
    /\ ui' = BlankUi
    /\ UNCHANGED <<pc, turns, locals, open_connections, warehouse_log, turn>>

\* lines 66-110: the run started by a submitted prompt
SubmitPrompt(p) ==
    /\ pc = "idle"
    /\ has_messages
    /\ turns < MaxTurns
    /\ turns' = turns + 1
    /\ has_messages' = TRUE
    /\ messages' = Append(Seeded(has_messages, messages), Turn("user", p))
    /\ pc' = "first_call"
    /\ response' = NoResponse
    /\ sql_query' = <<>>
    /\ df' = UnsetFrame
    /\ query_failed' = FALSE
    /\ function_response_message' = NoToolResult
    /\ followup_context' = <<>>
    /\ assistant_replied' = ""
    /\ ui' = BlankUi
    /\ turn' = BlankTurn
    /\ UNCHANGED <<open_connections, warehouse_log>>

\* lines 113-118: the call raises (network, rate limit, bad request)
FirstModelCallRaises ==
    /\ pc = "first_call"
    /\ pc' = "idle"
    /\ turn' = [turn EXCEPT !.model_calls = @ + 1, !.raised = "first_call",
                            !.path = "first_call_error"]
    /\ UNCHANGED <<session, locals, open_connections, ui, warehouse_log>>

\* lines 113-122: the call returns a message
FirstModelCallReturns(resp) ==
    /\ pc = "first_call"
    /\ response' = resp
    /\ pc' = "tool_check"
    /\ turn' = [turn EXCEPT !.model_calls = @ + 1]
    /\ UNCHANGED <<session, sql_query, df, query_failed, function_response_message,
                   followup_context, assistant_replied, open_connections, ui,
                   warehouse_log>>

\* lines 123, 168-170: no tool invocation, the reply is the answer
DirectAnswer ==
    /\ pc = "tool_check"
    /\ ~HasToolCalls(response)
    /\ assistant_replied' = DirectReply(response)
    /\ pc' = "append"
    /\ turn' = [turn EXCEPT !.path = "direct"]
    /\ UNCHANGED <<session, response, sql_query, df, query_failed,
                   function_response_message, followup_context, open_connections,
                   ui, warehouse_log>>

\* lines 123-126: json.loads or the subscript raises, and nothing catches it
ParseArgsRaises ==
    /\ pc = "tool_check"
    /\ HasToolCalls(response)
    /\ ArgsRaise(response.tool_calls[1].arguments)
    /\ pc' = "idle"
    /\ turn' = [turn EXCEPT !.raised = "malformed", !.path = "malformed"]
    /\ UNCHANGED <<session, locals, open_connections, ui, warehouse_log>>

\* lines 123-130: the candidate is read from the first invocation and shown
ParseArgs ==
    /\ pc = "tool_check"
    /\ HasToolCalls(response)
    /\ ~ArgsRaise(response.tool_calls[1].arguments)
    /\ sql_query' = response.tool_calls[1].arguments.sql_query
    /\ ui' = [ui EXCEPT !.code = RenderedSql(sql_query'), !.code_shown = TRUE]
    /\ pc' = "validate"
    /\ UNCHANGED <<session, response, df, query_failed, function_response_message,
                   followup_context, assistant_replied, open_connections,
                   warehouse_log, turn>>

\* lines 134, 26-27, 155-160: the candidate fails the check, ValueError is
\* raised and caught by the caller
ValidateRejects ==
    /\ pc = "validate"
    /\ ~Validator(sql_query)
    /\ function_response_message' =
           ErrorResponse(response.tool_calls[1].id, OnlySelectError)
    /\ pc' = "followup"
    /\ turn' = [turn EXCEPT !.validations = @ + 1, !.path = "rejected",
                            !.executor = "raised"]
    /\ UNCHANGED <<session, response, sql_query, df, query_failed, followup_context,
                   assistant_replied, open_connections, ui, warehouse_log>>

\* lines 134, 26: the candidate passes the check
ValidateAccepts ==
    /\ pc = "validate"
    /\ Validator(sql_query)
    /\ pc' = "connect"
    /\ turn' = [turn EXCEPT !.validations = @ + 1]
    /\ UNCHANGED <<session, locals, open_connections, ui, warehouse_log>>

\* lines 29-33, 155-160: sql.connect raises, outside the try of line 35; the
\* exception leaves execute_select_query and is caught by the caller
ConnectRaises(e) ==
    /\ pc = "connect"
    /\ function_response_message' = ErrorResponse(response.tool_calls[1].id, e)
    /\ pc' = AfterExecutionError
    /\ turn' = [turn EXCEPT !.connects = @ + 1, !.path = "connect_error",
                            !.executor = "raised"]
    /\ UNCHANGED <<session, response, sql_query, df, query_failed, followup_context,
                   assistant_replied, open_connections, ui, warehouse_log>>

\* lines 29-33: the connection is open
Connect ==
    /\ pc = "connect"
    /\ open_connections' = open_connections + 1
    /\ pc' = "read_sql"
    /\ turn' = [turn EXCEPT !.connects = @ + 1]
    /\ UNCHANGED <<session, locals, ui, warehouse_log>>

\* lines 35-37: pd.read_sql returns a frame of n rows
ReadSql(n) ==
    /\ pc = "read_sql"
    /\ warehouse_log' = warehouse_log \cup {sql_query}
    /\ df' = Frame(n)
    /\ query_failed' = FALSE
    /\ pc' = "finally"
    /\ turn' = [turn EXCEPT !.statements = @ + 1]
    /\ UNCHANGED <<session, response, sql_query, function_response_message,
                   followup_context, assistant_replied, open_connections, ui>>

\* lines 36, 38-40: pd.read_sql raises; st.error shows it, None is returned
ReadSqlRaises(e) ==
    /\ pc = "read_sql"
    /\ warehouse_log' = warehouse_log \cup {sql_query}
    /\ df' = NoneFrame
    /\ query_failed' = TRUE
    /\ ui' = [ui EXCEPT !.error = "An error occurred: " \o e]
    /\ pc' = "finally"
    /\ turn' = [turn EXCEPT !.statements = @ + 1]
    /\ UNCHANGED <<session, response, sql_query, function_response_message,
                   followup_context, assistant_replied, open_connections>>

\* lines 41-42, then 135-154 in the caller: the connection is closed, the
\* function returns, the frame is shown and the tool-result turn is built
CloseAndReturn ==
    /\ pc = "finally"
    /\ open_connections' = OpenAfterExit(open_connections, query_failed)
    /\ function_response_message' = FunctionResponse(response.tool_calls[1].id, df)
    /\ ui' = IF df.status = "frame" /\ Len(df.rows) > 0
             THEN [ui EXCEPT !.dataframe = df.rows]
             ELSE ui
    /\ pc' = IF df.status = "None" THEN AfterExecutionError ELSE "followup"
    /\ turn' = [turn EXCEPT !.executor = "returned",
                            !.path = IF df.status = "None" THEN "failed"
                                     ELSE IF Len(df.rows) = 0 THEN "empty"
                                     ELSE "rows"]
    /\ UNCHANGED <<session, response, sql_query, df, query_failed, followup_context,
                   assistant_replied, warehouse_log>>

\* lines 163-166: the follow-up call raises, and nothing catches it
FollowupCallRaises ==
    /\ pc = "followup"
    /\ followup_context' =
           FollowupContext(messages, response, function_response_message)
    /\ messages' =
           SessionAfterFollowup(messages, response, function_response_message)
    /\ pc' = "idle"
    /\ turn' = [turn EXCEPT !.model_calls = @ + 1, !.raised = "followup"]
    /\ UNCHANGED <<has_messages, turns, response, sql_query, df, query_failed,
                   function_response_message, assistant_replied, open_connections,
                   ui, warehouse_log>>

\* lines 163-167: the follow-up call returns text t
FollowupCallReturns(t) ==
    /\ pc = "followup"
    /\ followup_context' =
           FollowupContext(messages, response, function_response_message)
    /\ messages' =
           SessionAfterFollowup(messages, response, function_response_message)
    /\ assistant_replied' = t
    /\ pc' = "append"
    /\ turn' = [turn EXCEPT !.model_calls = @ + 1]
    /\ UNCHANGED <<has_messages, turns, response, sql_query, df, query_failed,
                   function_response_message, open_connections, ui, warehouse_log>>

\* lines 172-174: the assistant turn is appended and shown; the run ends
AppendAssistant ==
    /\ pc = "append"
    /\ messages' = Append(messages, Turn("assistant", assistant_replied))
    /\ pc' = "idle"
    /\ turn' = [turn EXCEPT !.appended = @ + 1]
    /\ UNCHANGED <<has_messages, turns, locals, open_connections, ui, warehouse_log>>

Next ==
    \/ Rerun
    \/ \E p \in Prompts : SubmitPrompt(p)
    \/ FirstModelCallRaises
    \/ \E resp \in TextReplies \cup ToolReplies : FirstModelCallReturns(resp)
    \/ DirectAnswer
    \/ ParseArgsRaises
    \/ ParseArgs
    \/ ValidateRejects
    \/ ValidateAccepts
    \/ \E e \in ConnectErrors : ConnectRaises(e)
    \/ Connect
    \/ \E n \in RowCounts : ReadSql(n)
    \/ \E e \in QueryErrors : ReadSqlRaises(e)
    \/ CloseAndReturn
    \/ FollowupCallRaises
    \/ \E t \in ReplyTexts : FollowupCallReturns(t)
    \/ AppendAssistant

Spec == Init /\ [][Next]_vars

(***************************************************************************)
(* The validator applied to generated candidates: the run stands at line   *)
(* 134 with a candidate the model proposed, and execute_select_query       *)
(* checks it.                                                              *)
(***************************************************************************)
ValidatorInputs == GeneratedCandidates \cup SqlCandidates

InitValidator ==
    /\ has_messages = TRUE
    /\ messages = <<Turn("system", SystemPrompt),
                    Turn("user", "How many employees completed course 3?")>>
    /\ pc = "validate"
    /\ turns = 1
    /\ \E q \in ValidatorInputs :
          /\ sql_query = q
          /\ response = [role |-> "assistant", content |-> "",
                         tool_calls |-> <<ToolCall(1, ArgsWith(q))>>]
          /\ ui = [BlankUi EXCEPT !.code = q, !.code_shown = TRUE]
    /\ open_connections = 0
    /\ df = UnsetFrame
    /\ query_failed = FALSE
    /\ function_response_message = NoToolResult
    /\ followup_context = <<>>
    /\ assistant_replied = ""
    /\ warehouse_log = {}
    /\ turn = [BlankTurn EXCEPT !.model_calls = 1]

NextValidator ==
    \/ ValidateRejects
    \/ ValidateAccepts

SpecValidator == InitValidator /\ [][NextValidator]_vars

(***************************************************************************)
(* Vocabulary of the properties.                                           *)
(***************************************************************************)
RECURSIVE LStrip(_)
LStrip(s) == IF s # <<>> /\ IsSpace(Head(s)) THEN LStrip(Tail(s)) ELSE s

UpperCase(c) ==
    IF \E i \in 1..26 : LowerLetters[i] = c
    THEN UpperLetters[CHOOSE i \in 1..26 : LowerLetters[i] = c]
    ELSE c

\* s, with its leading whitespace removed, begins with SELECT in any letter
\* case immediately followed by a whitespace character
BeginsWithSelectSpace(s) ==
    LET t == LStrip(s) IN
        /\ Len(t) >= 7
        /\ [i \in 1..6 |-> UpperCase(t[i])] = KeywordUpper
        /\ IsSpace(t[7])

\* w occurs in s, in any letter case
Contains(s, w) ==
    \E i \in 1..(Len(s) - Len(w) + 1) :
        \A k \in 1..Len(w) : UpperCase(s[i + k - 1]) = UpperCase(w[k])

DmlDdlKeywords ==
    {<<"I", "N", "S", "E", "R", "T">>, <<"U", "P", "D", "A", "T", "E">>,
     <<"D", "E", "L", "E", "T", "E">>, <<"D", "R", "O", "P">>,
     <<"A", "L", "T", "E", "R">>}

\* s is one read-only SELECT: no statement separator, no DML/DDL keyword
SingleReadOnlySelect(s) ==
    /\ BeginsWithSelectSpace(s)
    /\ ~Contains(s, <<";">>)
    /\ \A w \in DmlDdlKeywords : ~Contains(s, w)

LastMessage == messages[Len(messages)]

TurnEnded == pc = "idle" /\ turns > 0

\* a turn of the session that is a tool invocation or a tool result
IsToolTurn(m) == m.role = "tool" \/ "tool_calls" \in DOMAIN m

(***************************************************************************)
(* Properties.                                                             *)
(***************************************************************************)

\* C1: a statement reaches the warehouse (pd.read_sql) only if it begins,
\* after leading whitespace, with SELECT and a whitespace character; a turn
\* whose candidate is rejected submits no statement, and a query result only
\* exists for such a candidate.
C1_OnlyValidatedSubmitted ==
    /\ \A q \in warehouse_log : BeginsWithSelectSpace(q)
    /\ pc \in {"connect", "read_sql", "finally"} => BeginsWithSelectSpace(sql_query)
    /\ df.status # "unset" => BeginsWithSelectSpace(sql_query)
    /\ turn.statements > 0 => BeginsWithSelectSpace(sql_query)
    /\ turn.path = "rejected" => turn.statements = 0 /\ df.status = "unset"

\* C1 witness: a turn proposing DELETE FROM employees ended with its assistant
\* turn, after another turn's SELECT was run
C1_Witness ==
    /\ TurnEnded
    /\ turn.path = "rejected"
    /\ sql_query = SqlDelete
    /\ turn.appended = 1
    /\ warehouse_log = {SqlSelectAll}

\* C2: every processed turn, in each of the six branches, has appended
\* exactly one assistant turn when its processing ends.
C2_OneAssistantTurnPerBranch ==
    (TurnEnded /\ turn.path \in {"direct", "rows", "empty", "failed", "rejected",
                                 "malformed"})
        => turn.appended = 1 /\ LastMessage.role = "assistant"

\* C3: the validator accepts a candidate if and only if, after its leading
\* whitespace, it begins with SELECT in any letter case followed by a
\* whitespace character.
C3_ValidatorIffSelectSpace ==
    /\ pc = "connect" => BeginsWithSelectSpace(sql_query)
    /\ pc = "followup" =>
          /\ ~BeginsWithSelectSpace(sql_query)
          /\ function_response_message.content.text = "Error: " \o OnlySelectError
    /\ Validator(sql_query) <=> BeginsWithSelectSpace(sql_query)

\* C3 witness: a candidate with leading whitespace and mixed letter case was
\* accepted
C3_Witness ==
    /\ pc = "connect"
    /\ sql_query = <<" ", "\n", "s", "E", "l", "e", "C", "t", "\t", "x">>

\* C4: every statement submitted to the warehouse is a single read-only
\* SELECT: it holds no statement separator and no DML/DDL keyword.
C4_OnlySingleSelectSubmitted ==
    \A q \in warehouse_log : SingleReadOnlySelect(q)

C6_ToolTurnsInSession ==
    pc = "followup" =>
        /\ Len(messages) >= 3
        /\ LastMessage.role = "tool"
        /\ IsToolTurn(messages[Len(messages) - 1])

\* C6 amended: the tool-invocation turn and the tool-result turn follow the
\* Session's turns, in that order, in the context of the second model call,
\* and no turn of the Session is ever one of them: a completed tool turn
\* leaves (user, assistant) at the end of the Session.
C6_ToolTurnsOnlyInContext ==
    /\ \A i \in 1..Len(messages) : ~IsToolTurn(messages[i])
    /\ (pc = "append" /\ turn.path # "direct") =>
          /\ Len(followup_context) = Len(messages) + 2
          /\ SubSeq(followup_context, 1, Len(messages)) = messages
          /\ followup_context[Len(messages) + 1] = response
          /\ followup_context[Len(messages) + 2] = function_response_message
          /\ function_response_message.tool_call_id = response.tool_calls[1].id
    /\ (TurnEnded /\ turn.appended = 1) =>
          /\ LastMessage.role = "assistant"
          /\ messages[Len(messages) - 1].role = "user"

\* C6 witness: a turn with a tool invocation and rows ended
C6_Witness ==
    /\ TurnEnded
    /\ turn.path = "rows"
    /\ turn.appended = 1
    /\ Len(followup_context) = Len(messages) + 1

\* C7: in a turn whose first reply carries no tool invocation the reply text
\* is the assistant turn, unchanged, and nothing else ran: no validation, no
\* connection, no statement, no second model call, no SQL shown.
C7_DirectAnswerSkipsPipeline ==
    turn.path = "direct" =>
        /\ turn.validations = 0
        /\ turn.connects = 0
        /\ turn.statements = 0
        /\ turn.model_calls = 1
        /\ open_connections = 0
        /\ ~ui.code_shown
        /\ df.status = "unset"
        /\ followup_context = <<>>
        /\ assistant_replied = response.content
        /\ pc \in {"append", "idle"}
        /\ pc = "idle" =>
              /\ turn.appended = 1
              /\ LastMessage = Turn("assistant", response.content)

\* C7 witness: a direct answer was appended
C7_Witness ==
    /\ TurnEnded
    /\ turn.path = "direct"
    /\ turn.appended = 1
    /\ response.content \in ReplyTexts

\* C8: a connection is open only inside execute_select_query, between
\* sql.connect and the finally clause; everywhere else, during either model
\* call and while the page awaits input, none is open.
C8_ConnectionScoped ==
    /\ pc \in {"read_sql", "finally"} => open_connections = 1
    /\ pc \notin {"read_sql", "finally"} => open_connections = 0

\* C8 witness: the follow-up call is due after pd.read_sql raised
C8_Witness ==
    /\ pc = "followup"
    /\ turn.path = "failed"
    /\ turn.connects = 1
    /\ query_failed

\* C9: whatever failed in a turn, the turn ends with a single assistant
\* message appended to the Session.
C9_FailureBecomesAssistantTurn ==
    (TurnEnded /\ (turn.raised # "none"
                   \/ turn.path \in {"rejected", "connect_error", "failed"}))
        => turn.appended = 1 /\ LastMessage.role = "assistant"

\* C10: called with a validated candidate, execute_select_query returns
\* (rows, an empty frame, or None after st.error) and never raises.
C10_ExecutorNeverRaises ==
    (BeginsWithSelectSpace(sql_query) /\ turn.executor # "none")
        => /\ turn.executor = "returned"
           /\ df.status = "None" => ui.error # ""

\* s is a prefix of t
IsPrefix(s, t) == Len(s) <= Len(t) /\ SubSeq(t, 1, Len(s)) = s

Min(a, b) == IF a < b THEN a ELSE b

\* the tool-result turns of a context
ToolResultsOf(ctx) == {i \in 1..Len(ctx) : ctx[i].role = "tool"}

\* C11: an empty result always yields the 'no results' text and a failed
\* query an error text; the two texts differ and no outcome yields both.
C11_EmptyDistinctFromFailure ==
    /\ EmptyResultText # ExecutionErrorText
    /\ (turn.path = "empty" /\ pc \in {"followup", "append"}) =>
          /\ df.status = "frame" /\ df.rows = <<>>
          /\ function_response_message.content.text = EmptyResultText
    /\ (turn.path = "failed" /\ pc \in {"followup", "append"}) =>
          /\ df.status = "None"
          /\ function_response_message.content.text = ExecutionErrorText
    /\ (turn.path = "connect_error" /\ pc \in {"followup", "append"}) =>
          function_response_message.content.text # EmptyResultText

\* C11 witness: the follow-up call is due after a query that returned no rows
C11_Witness ==
    /\ pc = "followup"
    /\ turn.path = "empty"
    /\ turn.statements = 1
    /\ df = Frame(0)

\* C12: the Session only grows at its end: every step leaves the Session a
\* prefix of what it becomes; once seeded its first turn is the system turn,
\* and it holds no second system turn.
C12_SessionAppendOnly ==
    /\ [](has_messages =>
             /\ Len(messages) >= 1
             /\ messages[1] = Turn("system", SystemPrompt)
             /\ \A i \in 2..Len(messages) : messages[i].role # "system")
    /\ [][IsPrefix(messages, messages') /\ (has_messages => has_messages')]_vars

\* C12 witness: two turns were processed and the page was drawn again
C12_Witness ==
    /\ TurnEnded
    /\ turns = 2
    /\ Len(messages) = 5
    /\ ui = BlankUi
    /\ turn.appended = 1

\* C13: from the moment the tool arguments are read to the end of the run,
\* the SQL in the code block is the string given to execute_select_query,
\* shown also when the string is rejected or its execution fails; a submitted
\* statement is the shown string.
C13_RenderedSqlIsExecutedSql ==
    pc \in {"validate", "connect", "read_sql", "finally", "followup", "append"}
    /\ turn.path # "direct"
        => /\ ui.code_shown
           /\ ui.code = sql_query
           /\ ui.code = response.tool_calls[1].arguments.sql_query
           /\ turn.statements > 0 => ui.code \in warehouse_log

\* C13 witness: a rejected candidate with leading text is shown as proposed
C13_Witness ==
    /\ pc = "followup"
    /\ turn.path = "rejected"
    /\ ui.code = SqlCommentThenSelect

\* C14: in one turn the warehouse sees at most one connection attempt and
\* one statement and the model at most two calls; after a connection or query
\* failure the execution step is over: the run is at the follow-up call or
\* past it.
C14_NoRetry ==
    /\ turn.connects <= 1
    /\ turn.statements <= 1
    /\ turn.validations <= 1
    /\ turn.model_calls <= 2
    /\ turn.statements <= turn.connects
    /\ turn.path \in {"connect_error", "failed"} =>
          /\ pc \in {"followup", "append", "idle"}
          /\ turn.connects = 1
          /\ open_connections = 0
          /\ (turn.path = "connect_error") => turn.statements = 0
    /\ (pc = "idle" /\ turn.path \in {"connect_error", "failed"}
        /\ turn.raised = "none") => turn.appended = 1 /\ turn.model_calls = 2

\* C14 witness: a turn whose connection attempt failed ended with its
\* assistant turn
C14_Witness ==
    /\ TurnEnded
    /\ turn.path = "connect_error"
    /\ turn.connects = 1
    /\ turn.appended = 1

\* C15: for a result of n >= 1 rows the tool-result turn holds the first
\* min(n, 20) rows in their order and the table shown holds all n rows.
C15_PreviewIsFirstTwentyRows ==
    (turn.path = "rows" /\ pc \in {"followup", "append"}) =>
        LET n == Len(df.rows) IN
        /\ n >= 1
        /\ function_response_message.content.rows =
              [i \in 1..Min(n, 20) |-> df.rows[i]]
        /\ ui.dataframe = df.rows
        /\ Len(ui.dataframe) = n
        /\ pc = "append" =>
              followup_context[Len(followup_context)].content.rows =
                  [i \in 1..Min(n, 20) |-> df.rows[i]]

\* C15 witness: a result of more than 20 rows was cut to 20 for the model
C15_Witness ==
    /\ pc = "append"
    /\ turn.path = "rows"
    /\ Len(df.rows) > 20
    /\ Len(function_response_message.content.rows) = 20
    /\ Len(ui.dataframe) > 20

\* C16: in the context of the second model call every tool invocation of
\* the invocation turn has exactly one tool-result turn with its identifier,
\* and every tool-result turn carries an identifier of the invocation turn.
C16_EveryInvocationAnswered ==
    (pc = "append" /\ turn.path # "direct") =>
        /\ \A k \in 1..Len(response.tool_calls) :
              Cardinality({i \in ToolResultsOf(followup_context) :
                  followup_context[i].tool_call_id = response.tool_calls[k].id}) = 1
        /\ \A i \in ToolResultsOf(followup_context) :
              \E k \in 1..Len(response.tool_calls) :
                  followup_context[i].tool_call_id = response.tool_calls[k].id

\* C17: a connection is attempted in a turn only after its candidate passed
\* the check; a rejected candidate opens none.
C17_ValidationBeforeConnection ==
    /\ turn.connects > 0 =>
          /\ turn.validations = 1
          /\ BeginsWithSelectSpace(sql_query)
    /\ open_connections > 0 => BeginsWithSelectSpace(sql_query)
    /\ turn.path = "rejected" =>
          /\ turn.validations = 1
          /\ turn.connects = 0
          /\ open_connections = 0
    /\ (turn.validations = 1 /\ ~BeginsWithSelectSpace(sql_query)) =>
          turn.connects = 0 /\ pc \notin {"connect", "read_sql", "finally"}

\* C17 witness: the comment-then-SELECT candidate was rejected and the turn
\* ended without a connection attempt
C17_Witness ==
    /\ TurnEnded
    /\ turn.path = "rejected"
    /\ sql_query = SqlCommentThenSelect
    /\ turn.connects = 0
    /\ turn.appended = 1

====
